---- MODULE Spec2Model ----
(***************************************************************************)
(* Model of stress_preprocessor/utils/signal_processing_utils.py:          *)
(*   extract_neuro_features  - the per-recording extraction loop, its      *)
(*                             file-system and logging side effects        *)
(*   get_sampling_rate       - the sampling-rate estimator                 *)
(*   resample_dataframe      - the resampler                               *)
(* The external processor (neurokit2) is a black box: for each recording   *)
(* it returns a table derived from the signal and emits some warnings.     *)
(***************************************************************************)
EXTENDS Integers, Sequences, FiniteSets, TLC

(***************************************************************************)
(* Bounds of the exploration.                                              *)
(***************************************************************************)
MaxCalls == 2      \* calls of extract_neuro_features in one run
MaxRecs == 2       \* recordings handed to extract_neuro_features in one run
MaxWarn == 2       \* warnings the external processor emits in one run

(***************************************************************************)
(* Inputs of extract_neuro_features.                                       *)
(***************************************************************************)
None == "None"

Participants == {"1", "2"}

\* a scenario id as it sits in the scenario column: the integer 2 and the
\* string '2' are different values of the column
ScenarioIds == {[type |-> "int", text |-> "2"],
                [type |-> "str", text |-> "2"]}

NoScenario == [type |-> "None", text |-> "None"]
ModeCodes == {0, 1, 2}
GraphPaths == {"out"}
SignalTypes == {"ECG", "EDA", "EEG"}

\* the mode map handed in by the caller: code 2 has no entry
Modes == [c \in {0, 1} |-> IF c = 0 THEN "eco" ELSE "sport"]

\* a recording: the first-row scenario id and mode code, and the signal column
Recordings == [scenario : ScenarioIds, mode : ModeCodes, signal : {"sig"}]

NoRecording == [scenario |-> NoScenario, mode |-> 0 - 1, signal |-> None]

SeqsUpTo(S, n) == UNION {[1..k -> S] : k \in 0..n}

\* the dfs argument: a list of recordings, or one recording that is not a list
DfsInputs(n) ==
    {[isList |-> TRUE, single |-> NoRecording, list |-> l] : l \in SeqsUpTo(Recordings, n)}
    \cup (IF n >= 1
          THEN {[isList |-> FALSE, single |-> r, list |-> <<>>] : r \in Recordings}
          ELSE {})

\* what the external processor may emit: the text and the category of a warning
WarningKinds == {[msg |-> "w1", category |-> "RuntimeWarning"],
                 [msg |-> "w2", category |-> "DeprecationWarning"],
                 [msg |-> "w3", category |-> "RuntimeWarning"]}

VARIABLES
    pc,               \* position of the running call: idle, loop, process, save, concat, log, done
    args,             \* arguments of the running call
    dfs,              \* the normalised list of recordings (line 36-38)
    idx,              \* 1-based position of the recording being processed
    scenario_id,      \* line 42
    mode,             \* line 43
    caught_warnings,  \* line 48 / 54
    neuro_processed,  \* the processor's table for the current recording
    neuro_feats_dfs,  \* line 40, 82
    returned,         \* TRUE once the call has returned a list
    result,           \* the returned list
    raised,           \* the exception that ended the call, or "none"
    raisedAt,         \* position of the recording at which it was raised
    events,           \* what the running call has done so far, in order
    log,              \* records the running call sent to logging.warning
    emitted,          \* per recording of the running call: the warnings the processor emitted
    captured,         \* per recording of the running call: the warnings that were caught
    files,            \* the file system: path -> image
    dirs,             \* the file system: directories
    dirsBefore,       \* the directories when the running call began
    written,          \* every savefig of the run
    calls,            \* calls made so far
    used,             \* recordings handed in so far
    warned            \* warnings emitted so far

extractVars == <<pc, args, dfs, idx, scenario_id, mode, caught_warnings, neuro_processed,
                 neuro_feats_dfs, returned, result, raised, raisedAt, events, log, emitted,
                 captured, files, dirs, dirsBefore, written, calls, used, warned>>

VARIABLES
    rPc,              \* position of the running get_sampling_rate call: start, loop, done
    rDfs,             \* its dfs argument
    time_col,         \* its time_col argument
    rIdx,             \* 1-based position of the recording being examined
    sampling_rates,   \* line 105, 112
    rReturned,        \* TRUE once the call has returned a list
    rResult,          \* the returned list
    rRaised,          \* the exception that ended the call, or "none"
    rMessage,         \* its message
    rExamined         \* positions of the recordings examined so far

rateVars == <<rPc, rDfs, time_col, rIdx, sampling_rates, rReturned, rResult, rRaised,
              rMessage, rExamined>>

VARIABLES
    sPc,              \* position of the resample_dataframe run: start, returned, raised
    df,               \* the caller's recording object
    dfBefore,         \* the caller's recording as it was before the call
    target_freq,      \* width of a time bin
    resampled_df,     \* the returned table
    sRaised           \* the exception that ended the last call, or "none"

resampleVars == <<sPc, df, dfBefore, target_freq, resampled_df, sRaised>>

vars == <<extractVars, rateVars, resampleVars>>

NoArgs == [dfs |-> [isList |-> TRUE, single |-> NoRecording, list |-> <<>>],
           signal_type |-> None, offline |-> FALSE, participant |-> None,
           graph_path |-> None]

Ev(op, i) == [op |-> op, i |-> i]

(***************************************************************************)
(* Pure helpers of extract_neuro_features.                                 *)
(***************************************************************************)

\* line 36-38: a value that is not a list becomes a one-element list
Normalize_nowrap(d) == d.list
Normalize(d) == IF d.isList THEN d.list ELSE <<d.single>>

\* line 43: modes[code] raises KeyError when the code has no entry
ModeOf_get(code) ==
    IF code \in DOMAIN Modes THEN [ok |-> TRUE, name |-> Modes[code]]
                             ELSE [ok |-> TRUE, name |-> None]
ModeOf(code) ==
    IF code \in DOMAIN Modes THEN [ok |-> TRUE, name |-> Modes[code]]
                             ELSE [ok |-> FALSE, name |-> None]

\* os.path.join of a directory and a relative name
PathJoin(dir, name) == dir \o "/" \o name

\* line 63
SubjDir(graph_path, participant) ==
    PathJoin(graph_path, "SUBJ_" \o participant \o "_neurokit_features")

\* line 69: a value placed in the f-string is formatted with str(), which gives
\* the same text for the integer 2 and the string '2'
Format(v) == v.text

\* line 69
FileName(signal_type, participant, scen, modeName) ==
    signal_type \o "_FEATS_SUBJ_" \o participant \o "_SCEN_" \o Format(scen)
        \o "_MODE_" \o modeName \o ".png"

\* line 70: the image goes directly under graph_path
FullPath_positional(graph_path, signal_type, participant, scen, modeName, i) ==
    PathJoin(graph_path,
             FileName(signal_type, participant, scen, modeName) \o "." \o ToString(i))
FullPath(graph_path, signal_type, participant, scen, modeName, i) ==
    PathJoin(graph_path, FileName(signal_type, participant, scen, modeName))

\* line 64-65: os.makedirs creates the directory and its missing parents
MakeDirs_skip(ds, graph_path, subj_dir) == ds
MakeDirs(ds, graph_path, subj_dir) ==
    IF subj_dir \in ds THEN ds ELSE ds \cup {graph_path, subj_dir}

\* line 71: savefig creates the file or replaces the one at that path
SaveFig(fs, path, img) ==
    [p \in (DOMAIN fs) \cup {path} |-> IF p = path THEN img ELSE fs[p]]

\* line 48 / 54: catch_warnings(record=True) leaves the interpreter's warning
\* filters as they are; under the default filters a DeprecationWarning raised in
\* library code is ignored and a warning repeated from the same place is shown
\* once, so neither reaches the recorded list
RECURSIVE CatchWarnings(_, _)
CatchWarnings(ws, seen) ==
    IF ws = <<>> THEN <<>>
    ELSE IF Head(ws).category = "DeprecationWarning" \/ Head(ws) \in seen
         THEN CatchWarnings(Tail(ws), seen)
         ELSE <<Head(ws)>> \o CatchWarnings(Tail(ws), seen \cup {Head(ws)})

\* line 85-86: one log record per caught warning
LogRecords_last(caught) ==
    IF caught = <<>> THEN <<>> ELSE <<"Neurokit2: " \o caught[Len(caught)].msg>>
LogRecords(caught) == [k \in 1..Len(caught) |-> "Neurokit2: " \o caught[k].msg]

\* line 49 / 55: the processor's table, a function of the signal alone
Processor(signal_type, signal) ==
    IF signal_type = "ECG" THEN "ecg_process(" \o signal \o ")"
                           ELSE "eda_process(" \o signal \o ")"

\* line 74-80: prefixed feature columns next to the context columns of the recording
FeatureTable(rec, signal_type, processed) ==
    [context |-> rec, prefix |-> signal_type \o "_", features |-> processed]

(***************************************************************************)
(* extract_neuro_features, step by step.                                   *)
(***************************************************************************)

ExtractInit ==
    /\ pc = "idle"
    /\ args = NoArgs
    /\ dfs = <<>>
    /\ idx = 0
    /\ scenario_id = NoScenario
    /\ mode = None
    /\ caught_warnings = <<>>
    /\ neuro_processed = None
    /\ neuro_feats_dfs = <<>>
    /\ returned = FALSE
    /\ result = <<>>
    /\ raised = "none"
    /\ raisedAt = 0
    /\ events = <<>>
    /\ log = <<>>
    /\ emitted = <<>>
    /\ captured = <<>>
    /\ files = <<>>
    /\ dirs = {}
    /\ dirsBefore = {}
    /\ written = {}
    /\ calls = 0
    /\ used = 0
    /\ warned = 0

\* line 13-40: the call begins; dfs is normalised and the result list is empty
Call ==
    /\ pc \in {"idle", "done"}
    /\ calls < MaxCalls
    /\ \E d \in DfsInputs(MaxRecs - used), st \in SignalTypes, off \in BOOLEAN,
          p \in Participants, g \in GraphPaths :
        /\ args' = [dfs |-> d, signal_type |-> st, offline |-> off,
                    participant |-> p, graph_path |-> g]
        /\ dfs' = Normalize(d)
        /\ used' = used + (IF d.isList THEN Len(d.list) ELSE 1)
    /\ calls' = calls + 1
    /\ pc' = "loop"
    /\ idx' = 1
    /\ neuro_feats_dfs' = <<>>
    /\ scenario_id' = NoScenario
    /\ mode' = None
    /\ caught_warnings' = <<>>
    /\ neuro_processed' = None
    /\ returned' = FALSE
    /\ result' = <<>>
    /\ raised' = "none"
    /\ raisedAt' = 0
    /\ events' = <<>>
    /\ log' = <<>>
    /\ emitted' = <<>>
    /\ captured' = <<>>
    /\ dirsBefore' = dirs
    /\ UNCHANGED <<files, dirs, written, warned>>
    /\ UNCHANGED <<rateVars, resampleVars>>

\* line 41-44: the next recording's first row is read and its mode code looked up
ReadRow ==
    /\ pc = "loop"
    /\ idx <= Len(dfs)
    /\ LET rec == dfs[idx]
           m == ModeOf(rec.mode)
       IN /\ scenario_id' = rec.scenario
          /\ events' = events \o <<Ev("read", idx), Ev("lookup", idx)>>
          /\ IF m.ok
             THEN /\ mode' = m.name
                  /\ pc' = "process"
                  /\ UNCHANGED <<raised, raisedAt>>
             ELSE /\ raised' = "KeyError"
                  /\ raisedAt' = idx
                  /\ pc' = "done"
                  /\ UNCHANGED mode
    /\ UNCHANGED <<args, dfs, idx, caught_warnings, neuro_processed, neuro_feats_dfs,
                   returned, result, log, emitted, captured, files, dirs, dirsBefore, written,
                   calls, used, warned>>
    /\ UNCHANGED <<rateVars, resampleVars>>

\* the processor runs under catch_warnings and, offline, its plot is drawn
RunProcessor(procOp, plotOp) ==
    /\ \E ws \in SeqsUpTo(WarningKinds, MaxWarn - warned) :
        /\ emitted' = Append(emitted, ws)
        /\ caught_warnings' = CatchWarnings(ws, {})
        /\ captured' = Append(captured, CatchWarnings(ws, {}))
        /\ warned' = warned + Len(ws)
    /\ neuro_processed' = Processor(args.signal_type, dfs[idx].signal)
    /\ events' = events \o <<Ev(procOp, idx)>>
                        \o (IF args.offline THEN <<Ev(plotOp, idx)>> ELSE <<>>)
    /\ pc' = "save"
    /\ UNCHANGED <<args, dfs, idx, scenario_id, mode, neuro_feats_dfs, returned, result,
                   raised, raisedAt, log, files, dirs, dirsBefore, written, calls, used>>
    /\ UNCHANGED <<rateVars, resampleVars>>

\* line 46-51
ProcessECG ==
    /\ pc = "process"
    /\ args.signal_type = "ECG"
    /\ RunProcessor("ecg_process", "ecg_plot")

\* line 52-57
ProcessEDA ==
    /\ pc = "process"
    /\ args.signal_type # "ECG"
    /\ args.signal_type = "EDA"
    /\ RunProcessor("eda_process", "eda_plot")

\* line 58-59
RaiseInvalidSignalType ==
    /\ pc = "process"
    /\ args.signal_type # "ECG"
    /\ args.signal_type # "EDA"
    /\ raised' = "ValueError"
    /\ raisedAt' = idx
    /\ pc' = "done"
    /\ UNCHANGED <<args, dfs, idx, scenario_id, mode, caught_warnings, neuro_processed,
                   neuro_feats_dfs, returned, result, events, log, emitted, captured, files, dirs,
                   dirsBefore, written, calls, used, warned>>
    /\ UNCHANGED <<rateVars, resampleVars>>

\* line 61-71: offline, the subject directory is ensured and the figure saved
SavePlot ==
    /\ pc = "save"
    /\ IF args.offline
       THEN LET subj_dir == SubjDir(args.graph_path, args.participant)
                full_path == FullPath(args.graph_path, args.signal_type,
                                      args.participant, scenario_id, mode, idx)
            IN /\ dirs' = MakeDirs(dirs, args.graph_path, subj_dir)
               /\ files' = SaveFig(files, full_path, [call |-> calls, i |-> idx])
               /\ written' = written \cup
                      {[graph_path |-> args.graph_path, signal_type |-> args.signal_type,
                        participant |-> args.participant, scenario |-> scenario_id,
                        mode |-> mode, call |-> calls, i |-> idx, path |-> full_path]}
               /\ events' = events \o
                      (IF subj_dir \in dirs THEN <<>> ELSE <<Ev("makedirs", idx)>>)
                      \o <<Ev("savefig", idx)>>
       ELSE UNCHANGED <<dirs, files, written, events>>
    /\ pc' = "concat"
    /\ UNCHANGED <<args, dfs, idx, scenario_id, mode, caught_warnings, neuro_processed,
                   neuro_feats_dfs, returned, result, raised, raisedAt, log, emitted, captured,
                   dirsBefore, calls, used, warned>>
    /\ UNCHANGED <<rateVars, resampleVars>>

\* line 73-82: the Feature Table is built and appended
AppendTable ==
    /\ pc = "concat"
    /\ neuro_feats_dfs' =
           Append(neuro_feats_dfs, FeatureTable(dfs[idx], args.signal_type, neuro_processed))
    /\ events' = Append(events, Ev("append", idx))
    /\ pc' = "log"
    /\ UNCHANGED <<args, dfs, idx, scenario_id, mode, caught_warnings, neuro_processed,
                   returned, result, raised, raisedAt, log, emitted, captured, files, dirs,
                   dirsBefore, written, calls, used, warned>>
    /\ UNCHANGED <<rateVars, resampleVars>>

\* line 84-86: the caught warnings are logged, then the loop moves on
LogWarnings ==
    /\ pc = "log"
    /\ LET recs == LogRecords(caught_warnings)
       IN /\ log' = log \o recs
          /\ events' = events \o [k \in 1..Len(recs) |-> Ev("log", idx)]
    /\ idx' = idx + 1
    /\ pc' = "loop"
    /\ UNCHANGED <<args, dfs, scenario_id, mode, caught_warnings, neuro_processed,
                   neuro_feats_dfs, returned, result, raised, raisedAt, emitted, captured, files,
                   dirs, dirsBefore, written, calls, used, warned>>
    /\ UNCHANGED <<rateVars, resampleVars>>

\* line 88
Return ==
    /\ pc = "loop"
    /\ idx > Len(dfs)
    /\ returned' = TRUE
    /\ result' = neuro_feats_dfs
    /\ pc' = "done"
    /\ UNCHANGED <<args, dfs, idx, scenario_id, mode, caught_warnings, neuro_processed,
                   neuro_feats_dfs, raised, raisedAt, events, log, emitted, captured, files, dirs,
                   dirsBefore, written, calls, used, warned>>
    /\ UNCHANGED <<rateVars, resampleVars>>

(***************************************************************************)
(* get_sampling_rate.                                                      *)
(***************************************************************************)
MaxRateRecs == 2   \* recordings in one get_sampling_rate call
MaxSamples == 2    \* rows of one recording
MaxTime == 2       \* largest timestamp

TimeCols == {"timestamp", "time"}

\* a recording: its column names and the values of its "timestamp" column
RateRecordings ==
    {[columns |-> {"timestamp", "gsr"}, ts |-> t] : t \in SeqsUpTo(0..MaxTime, MaxSamples)}
    \cup {[columns |-> {"gsr"}, ts |-> <<>>]}

\* line 107: time_col in df.columns
HasColumn_always(rec, col) == TRUE
HasColumn(rec, col) == col \in rec.columns

\* line 108
MissingColumnMessage(col) == "Timestamp column '" \o col \o "' not found in dataframe."

\* line 110: time_series.diff() leaves NaN in the first row; sum of the other rows
RECURSIVE SumDiffs(_)
SumDiffs(ts) ==
    IF Len(ts) < 2 THEN 0 ELSE (ts[2] - ts[1]) + SumDiffs(Tail(ts))

\* line 110-111: mean() skips the NaN, so the interval is total / count and the
\* rate count / total; no difference at all gives NaN, a zero mean gives inf
SamplingRate(ts) ==
    LET count == IF Len(ts) = 0 THEN 0 ELSE Len(ts) - 1
        total == SumDiffs(ts)
    IN  IF count = 0 THEN [kind |-> "nan", num |-> 0, den |-> 0]
        ELSE IF total = 0 THEN [kind |-> "inf", num |-> 0, den |-> 0]
        ELSE [kind |-> "finite", num |-> count, den |-> total]

RateIdle ==
    /\ rPc = "idle"
    /\ rDfs = <<>>
    /\ time_col = None
    /\ rIdx = 0
    /\ sampling_rates = <<>>
    /\ rReturned = FALSE
    /\ rResult = <<>>
    /\ rRaised = "none"
    /\ rMessage = None
    /\ rExamined = {}

RateInit ==
    /\ rPc = "start"
    /\ rDfs \in SeqsUpTo(RateRecordings, MaxRateRecs)
    /\ time_col \in TimeCols
    /\ rIdx = 0
    /\ sampling_rates = <<>>
    /\ rReturned = FALSE
    /\ rResult = <<>>
    /\ rRaised = "none"
    /\ rMessage = None
    /\ rExamined = {}

\* line 105
RateStart ==
    /\ rPc = "start"
    /\ sampling_rates' = <<>>
    /\ rIdx' = 1
    /\ rPc' = "loop"
    /\ UNCHANGED <<rDfs, time_col, rReturned, rResult, rRaised, rMessage, rExamined>>
    /\ UNCHANGED <<extractVars, resampleVars>>

\* line 106-108: a recording without the timestamp column ends the call
RateRaise ==
    /\ rPc = "loop"
    /\ rIdx <= Len(rDfs)
    /\ ~HasColumn(rDfs[rIdx], time_col)
    /\ rExamined' = rExamined \cup {rIdx}
    /\ rRaised' = "ValueError"
    /\ rMessage' = MissingColumnMessage(time_col)
    /\ rPc' = "done"
    /\ UNCHANGED <<rDfs, time_col, rIdx, sampling_rates, rReturned, rResult>>
    /\ UNCHANGED <<extractVars, resampleVars>>

\* line 106-112: the rate of the next recording is appended
RateStep ==
    /\ rPc = "loop"
    /\ rIdx <= Len(rDfs)
    /\ HasColumn(rDfs[rIdx], time_col)
    /\ rExamined' = rExamined \cup {rIdx}
    /\ sampling_rates' = Append(sampling_rates, SamplingRate(rDfs[rIdx].ts))
    /\ rIdx' = rIdx + 1
    /\ UNCHANGED <<rPc, rDfs, time_col, rReturned, rResult, rRaised, rMessage>>
    /\ UNCHANGED <<extractVars, resampleVars>>

\* line 113
RateReturn ==
    /\ rPc = "loop"
    /\ rIdx > Len(rDfs)
    /\ rReturned' = TRUE
    /\ rResult' = sampling_rates
    /\ rPc' = "done"
    /\ UNCHANGED <<rDfs, time_col, rIdx, sampling_rates, rRaised, rMessage, rExamined>>
    /\ UNCHANGED <<extractVars, resampleVars>>

(***************************************************************************)
(* resample_dataframe.                                                     *)
(***************************************************************************)
MaxRows == 2       \* rows of the recording handed to resample_dataframe

NaN == "NaN"       \* a missing value in a text column
NaNValue == 0 - 1  \* a missing value in the value column (real values are positive)

Freqs == {1, 2}

\* the column names handed to resample_dataframe
timestamp_col == "timestamp"
participant_col == "subj"
group_col == "grp"
value_col == "val"

Rows == [timestamp : 0..MaxTime, subj : {"p1", NaN}, grp : {"a", "b", NaN},
         val : {NaNValue, 1, 3}, other : {"x"}]

NoFrame == [id |-> 0, index |-> None, columns |-> <<>>, rows |-> <<>>]

RECURSIVE GCD(_, _)
GCD(a, b) == IF b = 0 THEN a ELSE GCD(b, a % b)

\* line 136: set_index(..., inplace=True) moves the column into the index of the
\* object it is called on
SetIndex_copy(d, col) == d
SetIndex(d, col) ==
    [d EXCEPT !.index = col, !.columns = SelectSeq(@, LAMBDA c : c # col)]

\* line 139: resample() orders the rows by the index, keeping the order of ties
RECURSIVE SortByIndex(_, _, _)
SortByIndex(rows, t, hi) ==
    IF t > hi THEN <<>>
    ELSE SelectSeq(rows, LAMBDA r : r.timestamp = t) \o SortByIndex(rows, t + 1, hi)

\* line 139: the left edge of the bin a timestamp falls in
BinOf(t, w) == (t \div w) * w

\* 'first': the first value of the column in the bin that is not missing
RECURSIVE AggFirst_last(_, _)
AggFirst_last(rows, col) ==
    IF rows = <<>> THEN NaN
    ELSE IF rows[Len(rows)][col] # NaN THEN rows[Len(rows)][col]
         ELSE AggFirst_last(SubSeq(rows, 1, Len(rows) - 1), col)
RECURSIVE AggFirst(_, _)
AggFirst(rows, col) ==
    IF rows = <<>> THEN NaN
    ELSE IF Head(rows)[col] # NaN THEN Head(rows)[col]
         ELSE AggFirst(Tail(rows), col)

RECURSIVE SumOf(_, _)
SumOf(rows, col) ==
    IF rows = <<>> THEN 0
    ELSE (IF Head(rows)[col] = NaNValue THEN 0 ELSE Head(rows)[col]) + SumOf(Tail(rows), col)

\* 'mean': the mean of the values in the bin that are not missing, as a fraction
\* in lowest terms; den = 0 stands for NaN (no value in the bin)
AggMean(rows, col) ==
    LET count == Len(SelectSeq(rows, LAMBDA r : r[col] # NaNValue))
        total == SumOf(rows, col)
    IN  IF count = 0 THEN [num |-> 0, den |-> 0]
        ELSE [num |-> total \div GCD(total, count), den |-> count \div GCD(total, count)]

\* line 139-142: one output row for the bin starting at b
AggRow(rows, b) ==
    [timestamp |-> b,
     subj |-> AggFirst(rows, participant_col),
     grp |-> AggFirst(rows, group_col),
     val |-> AggMean(rows, value_col)]

\* line 139-142: every bin from the first timestamp's to the last timestamp's
RECURSIVE AggBins(_, _, _, _)
AggBins(rows, b, last, w) ==
    IF b > last THEN <<>>
    ELSE <<AggRow(SelectSeq(rows, LAMBDA r : b <= r.timestamp /\ r.timestamp < b + w), b)>>
         \o AggBins(rows, b + w, last, w)

ResampleAgg(rows, w) ==
    IF rows = <<>> THEN <<>>
    ELSE LET times == {rows[k].timestamp : k \in DOMAIN rows}
             lo == CHOOSE t \in times : \A u \in times : t <= u
             hi == CHOOSE t \in times : \A u \in times : u <= t
         IN  AggBins(SortByIndex(rows, lo, hi), BinOf(lo, w), BinOf(hi, w), w)

\* line 145: reset_index puts the index back as the first column
ResetIndex(indexName, cols) == <<indexName>> \o cols

\* line 146: rename(columns={'index': 'timestamp_col'})
RenameColumns(cols) ==
    [k \in DOMAIN cols |-> IF cols[k] = "index" THEN "timestamp_col" ELSE cols[k]]

ResampleIdle ==
    /\ sPc = "idle"
    /\ df = NoFrame
    /\ dfBefore = NoFrame
    /\ target_freq = 1
    /\ resampled_df = NoFrame
    /\ sRaised = "none"

ResampleInit ==
    /\ sPc = "start"
    /\ \E rows \in SeqsUpTo(Rows, MaxRows) :
           df = [id |-> 1, index |-> "RangeIndex",
                 columns |-> <<"timestamp", "subj", "grp", "val", "other">>,
                 rows |-> rows]
    /\ dfBefore = df
    /\ target_freq \in Freqs
    /\ resampled_df = NoFrame
    /\ sRaised = "none"

\* line 136-148 on a recording that has the timestamp column
Resample ==
    /\ sPc \in {"start", "returned"}
    /\ timestamp_col \in {df.columns[k] : k \in DOMAIN df.columns}
    /\ dfBefore' = df
    /\ df' = SetIndex(df, timestamp_col)
    /\ resampled_df' =
           [id |-> df.id + 1,
            index |-> "RangeIndex",
            columns |-> RenameColumns(ResetIndex(timestamp_col,
                            <<participant_col, group_col, value_col>>)),
            rows |-> ResampleAgg(df.rows, target_freq)]
    /\ sRaised' = "none"
    /\ sPc' = "returned"
    /\ UNCHANGED target_freq
    /\ UNCHANGED <<extractVars, rateVars>>

\* line 136 on a recording whose timestamp column is already its index:
\* set_index raises KeyError and nothing changes
ResampleKeyError ==
    /\ sPc \in {"start", "returned"}
    /\ timestamp_col \notin {df.columns[k] : k \in DOMAIN df.columns}
    /\ sRaised' = "KeyError"
    /\ sPc' = "raised"
    /\ UNCHANGED <<df, dfBefore, target_freq, resampled_df>>
    /\ UNCHANGED <<extractVars, rateVars>>

(***************************************************************************)
(* Specifications.                                                         *)
(***************************************************************************)
Init == ExtractInit /\ RateIdle /\ ResampleIdle

Next ==
    \/ Call
    \/ ReadRow
    \/ ProcessECG
    \/ ProcessEDA
    \/ RaiseInvalidSignalType
    \/ SavePlot
    \/ AppendTable
    \/ LogWarnings
    \/ Return

Spec == Init /\ [][Next]_vars

InitRate == ExtractInit /\ RateInit /\ ResampleIdle

NextRate ==
    \/ RateStart
    \/ RateRaise
    \/ RateStep
    \/ RateReturn

SpecRate == InitRate /\ [][NextRate]_vars

InitResample == ExtractInit /\ RateIdle /\ ResampleInit

NextResample ==
    \/ Resample
    \/ ResampleKeyError

SpecResample == InitResample /\ [][NextResample]_vars

(***************************************************************************)
(* Properties of extract_neuro_features (checked under Spec).              *)
(***************************************************************************)
ValidSignalType == args.signal_type \in {"ECG", "EDA"}

\* the recordings handed in, as the caller sees them
InputCount == IF args.dfs.isList THEN Len(args.dfs.list) ELSE 1
InputAt(i) == IF args.dfs.isList THEN args.dfs.list[i] ELSE args.dfs.single

\* position of the first recording whose mode code has no entry in the map, or 0
FirstMissing ==
    LET missing == {i \in 1..InputCount : InputAt(i).mode \notin DOMAIN Modes}
    IN  IF missing = {} THEN 0 ELSE CHOOSE i \in missing : \A j \in missing : i <= j

EventsOf(ops) == {k \in 1..Len(events) : events[k].op \in ops}

ProcessorOps == {"ecg_process", "eda_process", "ecg_plot", "eda_plot"}

\* C1: a call whose signal_type is neither 'ECG' nor 'EDA' ends with ValueError
\* before any recording is touched: nothing is read, looked up, processed or
\* written, whatever the list of recordings is.
C1_InvalidTypeRejectedFirst ==
    (pc = "done" /\ ~ValidSignalType) =>
        /\ raised = "ValueError"
        /\ events = <<>>
        /\ dirs = dirsBefore

\* C2: with a valid signal_type, if recording k is the first whose mode code is
\* absent from the map, the call raises the lookup error at k, the processor is
\* not invoked for k or later, no list is returned, and offline the images of
\* recordings before k are still on disk.
C2_LookupErrorAborts ==
    (pc = "done" /\ ValidSignalType /\ FirstMissing # 0) =>
        /\ raised = "KeyError"
        /\ raisedAt = FirstMissing
        /\ ~returned
        /\ result = <<>>
        /\ \A k \in EventsOf(ProcessorOps) : events[k].i < FirstMissing
        /\ {events[k].i : k \in EventsOf({"ecg_process", "eda_process"})}
               = 1..(FirstMissing - 1)
        /\ args.offline =>
               \A i \in 1..(FirstMissing - 1) :
                   \E w \in written : /\ w.call = calls
                                       /\ w.i = i
                                       /\ w.path \in DOMAIN files

C2_Witness ==
    /\ pc = "done"
    /\ ValidSignalType
    /\ args.offline
    /\ raised = "KeyError"
    /\ raisedAt = 2
    /\ DOMAIN files # {}

\* C3: a call that returns gives one Feature Table per input recording, the
\* table at position i built from the recording at position i; a single
\* recording that is not a list gives a list of length 1.
C3_OneTablePerRecording ==
    (pc = "done" /\ returned) =>
        /\ Len(result) = InputCount
        /\ \A i \in 1..InputCount :
               /\ result[i].context = InputAt(i)
               /\ result[i].prefix = args.signal_type \o "_"

C3_Witness ==
    /\ pc = "done"
    /\ returned
    /\ Len(result) = 2
    /\ result[1].context # result[2].context

SavesOfCall == Cardinality(EventsOf({"savefig"}))

TargetDir == SubjDir(args.graph_path, args.participant)

\* C4 as stated: a successful offline call over n recordings whose target
\* directory did not exist creates it and writes n images; a successful call
\* that is not offline writes nothing, creates nothing and plots nothing.
C4_AsStated ==
    (pc = "done" /\ returned) =>
        /\ (args.offline /\ TargetDir \notin dirsBefore) =>
               /\ TargetDir \in dirs
               /\ SavesOfCall = InputCount
        /\ ~args.offline =>
               /\ SavesOfCall = 0
               /\ dirs = dirsBefore
               /\ EventsOf({"ecg_plot", "eda_plot", "makedirs"}) = {}

\* C4: as above, except that the directory is created only when there is at
\* least one recording; over an empty list an offline call creates nothing.
C4_OfflineWritesOnePerRecording ==
    (pc = "done" /\ returned) =>
        /\ (args.offline /\ TargetDir \notin dirsBefore) =>
               /\ InputCount >= 1 => TargetDir \in dirs
               /\ InputCount = 0 => dirs = dirsBefore
               /\ SavesOfCall = InputCount
        /\ ~args.offline =>
               /\ SavesOfCall = 0
               /\ dirs = dirsBefore
               /\ EventsOf({"ecg_plot", "eda_plot", "makedirs"}) = {}

C4_Witness ==
    /\ pc = "done"
    /\ returned
    /\ args.offline
    /\ InputCount = 2
    /\ TargetDir \notin dirsBefore
    /\ TargetDir \in dirs
    /\ SavesOfCall = 2

\* C5: every image written is inside the per-participant subdirectory
\* <graph_path>/SUBJ_<participant>_neurokit_features/, which exists.
C5_ImagesInSubjectDir ==
    \A w \in written :
        /\ SubjDir(w.graph_path, w.participant) \in dirs
        /\ w.path = PathJoin(SubjDir(w.graph_path, w.participant),
                             FileName(w.signal_type, w.participant, w.scenario, w.mode))

RECURSIVE Flatten(_)
Flatten(ss) == IF ss = <<>> THEN <<>> ELSE Head(ss) \o Flatten(Tail(ss))

Prefixed(ws) == [k \in 1..Len(ws) |-> "Neurokit2: " \o ws[k].msg]

\* the log records of recording i come after its table was appended and before
\* any later recording is read
LogOrder ==
    \A k \in EventsOf({"log"}) :
        /\ \E a \in 1..(k - 1) : events[a] = Ev("append", events[k].i)
        /\ \A r \in 1..Len(events) :
               (events[r].op = "read" /\ events[r].i > events[k].i) => r > k

\* C9 as stated: every warning the processor emits yields exactly one log
\* record, in the order of the recordings.
C9_AsStated ==
    (pc = "done" /\ returned) =>
        /\ log = Flatten([i \in 1..Len(emitted) |-> Prefixed(emitted[i])])
        /\ LogOrder

\* C9: every warning that was caught (let through by the interpreter's warning
\* filters) yields exactly one log record prefixed "Neurokit2: "; the records of
\* recording i are emitted after its table is appended and before recording
\* i+1 is read; a call whose inputs are valid returns whatever was emitted, and
\* its log records are the caught warnings in the order of the recordings.
C9_CaughtWarningsLogged ==
    /\ LogOrder
    /\ (pc = "done" /\ ValidSignalType /\ FirstMissing = 0) => returned
    /\ (pc = "done" /\ returned) =>
           /\ Len(captured) = InputCount
           /\ log = Flatten([i \in 1..Len(captured) |-> Prefixed(captured[i])])
           /\ \A i \in 1..Len(captured) :
                  Cardinality({k \in EventsOf({"log"}) : events[k].i = i})
                      = Len(captured[i])

C9_Witness ==
    /\ pc = "done"
    /\ returned
    /\ Len(captured) = 2
    /\ Len(captured[1]) = 2
    /\ Len(log) = 2

TupleOf(w) == <<w.graph_path, w.signal_type, w.participant, w.scenario, w.mode>>

TuplesWritten == {TupleOf(w) : w \in written}

\* w is the latest savefig to its path
Latest(w) ==
    \A v \in written :
        v.path = w.path => (v.call < w.call \/ (v.call = w.call /\ v.i <= w.i))

\* C10 as stated: the number of image files on disk equals the number of
\* distinct (graph_path, signal_type, participant, scenario, mode name) tuples
\* written.
C10_AsStated ==
    /\ \A v, w \in written : TupleOf(v) = TupleOf(w) => v.path = w.path
    /\ Cardinality(DOMAIN files) = Cardinality(TuplesWritten)

\* C10: the path depends only on the tuple; a write to an existing path replaces
\* the image; the files on disk are exactly the distinct paths written, at most
\* as many as the distinct tuples (two tuples of one participant may format to
\* the same file name: scenario id 2 as an integer and '2' as a string).
C10_PathFromTupleOnly ==
    /\ \A v, w \in written : TupleOf(v) = TupleOf(w) => v.path = w.path
    /\ DOMAIN files = {w.path : w \in written}
    /\ \A w \in written : Latest(w) => files[w.path] = [call |-> w.call, i |-> w.i]
    /\ Cardinality(DOMAIN files) <= Cardinality(TuplesWritten)

C10_Witness ==
    /\ Cardinality(written) = 2
    /\ Cardinality(TuplesWritten) = 1
    /\ Cardinality(DOMAIN files) = 1
    /\ \E w \in written : w.i = 2 /\ files[w.path] = [call |-> w.call, i |-> 2]

(***************************************************************************)
(* Properties of get_sampling_rate (checked under SpecRate).               *)
(***************************************************************************)
FirstWithoutColumn ==
    LET lacking == {i \in 1..Len(rDfs) : time_col \notin rDfs[i].columns}
    IN  IF lacking = {} THEN 0 ELSE CHOOSE i \in lacking : \A j \in lacking : i <= j

\* the rate of a recording, from its first and last timestamp
RateMatches(rate, ts) ==
    IF Len(ts) < 2 THEN rate.kind = "nan"
    ELSE IF ts[Len(ts)] = ts[1] THEN rate.kind = "inf"
    ELSE /\ rate.kind = "finite"
         /\ rate.num = Len(ts) - 1
         /\ rate.den = ts[Len(ts)] - ts[1]

\* C6: when every recording has the timestamp column the call returns one rate
\* per recording in input order; otherwise it raises ValueError naming the
\* column, returns no list and examines no recording after the first one that
\* lacks the column.
C6_RatePerRecordingOrRaise ==
    (rPc = "done") =>
        IF FirstWithoutColumn = 0
        THEN /\ rReturned
             /\ rRaised = "none"
             /\ Len(rResult) = Len(rDfs)
             /\ \A i \in 1..Len(rDfs) : RateMatches(rResult[i], rDfs[i].ts)
        ELSE /\ rRaised = "ValueError"
             /\ rMessage = "Timestamp column '" \o time_col \o "' not found in dataframe."
             /\ ~rReturned
             /\ rResult = <<>>
             /\ rExamined = 1..FirstWithoutColumn

C6_Witness ==
    /\ rPc = "done"
    /\ rRaised = "ValueError"
    /\ Len(sampling_rates) = 1
    /\ sampling_rates[1].kind = "finite"
    /\ ~rReturned

(***************************************************************************)
(* Properties of resample_dataframe (checked under SpecResample).          *)
(***************************************************************************)
InRows == dfBefore.rows

InTimes == {InRows[k].timestamp : k \in DOMAIN InRows}

\* the left edges of the bins from the earliest timestamp's to the latest's
BinLabels ==
    IF InTimes = {} THEN {}
    ELSE LET lo == CHOOSE t \in InTimes : \A u \in InTimes : t <= u
             hi == CHOOSE t \in InTimes : \A u \in InTimes : u <= t
         IN  {b \in 0..hi : b % target_freq = 0 /\ b + target_freq > lo}

\* positions of the input rows that fall in the bin starting at b
RowsIn(b) == {k \in DOMAIN InRows : b <= InRows[k].timestamp
                                    /\ InRows[k].timestamp < b + target_freq}

\* the earliest of the positions in S, ties broken by input order
Earliest(S) ==
    CHOOSE k \in S : \A j \in S :
        \/ InRows[k].timestamp < InRows[j].timestamp
        \/ (InRows[k].timestamp = InRows[j].timestamp /\ k <= j)

RECURSIVE SumVal(_)
SumVal(S) ==
    IF S = {} THEN 0
    ELSE LET k == CHOOSE j \in S : TRUE IN InRows[k].val + SumVal(S \ {k})

\* the value column of an output row is the mean of the bin's values that are
\* not missing
MeanOK(out, b) ==
    LET S == {k \in RowsIn(b) : InRows[k].val # NaNValue}
    IN  IF S = {} THEN out.val.den = 0
        ELSE /\ out.val.den > 0
             /\ out.val.num * Cardinality(S) = SumVal(S) * out.val.den

\* one output row per bin, in time order, with only the four named columns
ShapeOK ==
    /\ resampled_df.columns = <<"timestamp", "subj", "grp", "val">>
    /\ resampled_df.index = "RangeIndex"
    /\ Len(resampled_df.rows) = Cardinality(BinLabels)
    /\ \A k \in DOMAIN resampled_df.rows :
           /\ resampled_df.rows[k].timestamp \in BinLabels
           /\ DOMAIN resampled_df.rows[k] = {"timestamp", "subj", "grp", "val"}
           /\ k > 1 => resampled_df.rows[k - 1].timestamp < resampled_df.rows[k].timestamp

\* C7 as stated: group and participant of an output row are the values of the
\* first row in the bin.
C7_AsStated ==
    (sPc = "returned") =>
        /\ ShapeOK
        /\ \A k \in DOMAIN resampled_df.rows :
               LET out == resampled_df.rows[k]
                   S == RowsIn(out.timestamp)
               IN  /\ MeanOK(out, out.timestamp)
                   /\ S # {} => /\ out.grp = InRows[Earliest(S)].grp
                                /\ out.subj = InRows[Earliest(S)].subj

\* C7: one row per bin from the earliest timestamp's bin to the latest's; the
\* value is the mean of the bin's values that are not missing; group and
\* participant are the first value in the bin that is not missing (missing
\* when the bin has none); only the four named columns are in the output.
C7_BinAggregation ==
    (sPc = "returned") =>
        /\ ShapeOK
        /\ \A k \in DOMAIN resampled_df.rows :
               LET out == resampled_df.rows[k]
                   S == RowsIn(out.timestamp)
                   G == {j \in S : InRows[j].grp # NaN}
                   P == {j \in S : InRows[j].subj # NaN}
               IN  /\ MeanOK(out, out.timestamp)
                   /\ out.grp = IF G = {} THEN NaN ELSE InRows[Earliest(G)].grp
                   /\ out.subj = IF P = {} THEN NaN ELSE InRows[Earliest(P)].subj

C7_Witness ==
    /\ sPc = "returned"
    /\ target_freq = 2
    /\ Len(InRows) = 2
    /\ Len(resampled_df.rows) = 1
    /\ InRows[1].grp = NaN
    /\ InRows[2].grp = "b"
    /\ resampled_df.rows[1].grp = "b"
    /\ resampled_df.rows[1].val = [num |-> 2, den |-> 1]

\* C8: the call changes the caller's recording object itself: afterwards the
\* timestamp column is its index and no longer a column, its other columns and
\* its rows are as before, and the returned table is another object.
C8_CallerFrameReindexed ==
    (sPc = "returned") =>
        /\ df.id = dfBefore.id
        /\ df.index = timestamp_col
        /\ \A k \in DOMAIN df.columns : df.columns[k] # timestamp_col
        /\ df.columns = SelectSeq(dfBefore.columns, LAMBDA c : c # timestamp_col)
        /\ Len(df.columns) = Len(dfBefore.columns) - 1
        /\ df.rows = dfBefore.rows
        /\ resampled_df.id # df.id

C8_Witness ==
    /\ sPc = "returned"
    /\ dfBefore.index = "RangeIndex"
    /\ df.index = "timestamp"
    /\ Len(df.rows) = 2
    /\ df.columns = <<"subj", "grp", "val", "other">>
====
